---- MODULE Spec2Model ----
(***************************************************************************)
(* Model of the multiparty WebRTC send/receive example                     *)
(* (webrtc/multiparty-sendrecv/gst-rust/src/main.rs).                      *)
(*                                                                         *)
(* The specifications of the module:                                       *)
(*   LayoutSpec  relayout_videomixer, run pad by pad on every pad count;   *)
(*   CodecSpec   the JsonMsg wire encoding and decoding;                   *)
(*   GraphSpec   add_peer's attach and remove_peer's detach of a Peer's    *)
(*               bin, statement by statement;                              *)
(*   GraphFairSpec   the same under the scheduling of the loop's thread    *)
(*               and of the engine's thread pool;                          *)
(*   NegSpec     one Peer's offer and answer continuations and its         *)
(*               candidate handler, statement by statement;                *)
(*   MixerSpec   the handlers that link and release video mixer pads and   *)
(*               run relayout_videomixer, on the engine's threads;         *)
(*   LockSpec    the peers mutex along add_peer, remove_peer and           *)
(*               handle_websocket_message;                                 *)
(*   Spec        the peer table, the per-peer negotiation continuations    *)
(*               and the message loop of run();                            *)
(*   FairSpec, LoopFairSpec   the same under the scheduling of the         *)
(*               engine's threads and of the loop.                         *)
(***************************************************************************)
EXTENDS Integers, Sequences, FiniteSets, TLC

VARIABLES
    lay,        \* relayout_videomixer: its locals and the pad properties it has set
    codec,      \* a JsonMsg, its serde_json text (as a JSON value) and the decoded message
    graph,      \* the tees, the mixers and the Peers' bins, pads and probes, and the
                \* positions of add_peer, its closure and remove_peer's closure
    neg,        \* one Peer's webrtcbin: its descriptions, the positions of the offer and
                \* answer continuations, and the messages sent to send_msg_tx in order
    mix,        \* the video mixer's sink pads, their tiles, and the positions of the
                \* pad-added and unlinked handlers running relayout_videomixer
    tbl,        \* the peers mutex and table, and the statement the loop's thread is at
    phase,      \* position of run(): "init" (App::new), "running" (loop), "done_ok", "done_err"
    initPeers,  \* the initial_peers slice handed to App::new
    initIdx,    \* index of the next initial peer App::new adds
    wsLeft,     \* frames the WebSocket stream will still deliver
    iceLeft,    \* ICE candidates the engine will still discover
    faultsLeft, \* engine calls that will still fail and bus messages still posted unasked
    gstQ,       \* send_gst_msg_rx: bus messages not yet taken by the loop
    outQ,       \* send_ws_msg_rx: outgoing messages not yet forwarded to ws_sink
    peers,      \* AppInner.peers: peer id -> Peer (0: no entry)
    nInst,      \* number of Peer objects created so far
    inst,       \* every Peer object created: its fields, bin, webrtcbin and continuations
    lastOp,     \* what the loop's thread dispatched last
    lastRes     \* the Result that dispatch returned ("ok" or the error)

layVars   == <<lay>>
codecVars == <<codec>>
graphVars == <<graph>>
stmtVars  == <<neg, mix, tbl>>
mainVars  == <<phase, initPeers, initIdx, wsLeft, iceLeft, faultsLeft, gstQ, outQ, peers,
               nInst, inst, lastOp, lastRes>>
vars      == <<lay, codec, graph, neg, mix, tbl, phase, initPeers, initIdx, wsLeft, iceLeft, faultsLeft, gstQ,
               outQ, peers, nInst, inst, lastOp, lastRes>>

(***************************************************************************)
(* Bounds of the model.                                                    *)
(***************************************************************************)
MaxPads == 18       \* video mixer sink pads besides the background pad
MaxMLine == 2       \* largest sdpMLineIndex drawn
MaxInst == 2        \* Peer objects created in one run
MaxWs == 2          \* WebSocket frames delivered in one run
MaxIce == 1         \* ICE candidates discovered in one run
MaxNeg == 1         \* on-negotiation-needed signals raised per Peer
MaxFaults == 1      \* engine calls that fail, and bus messages posted unasked, in one run
MaxStreams == 1     \* decoded streams linked to the mixers at one time
MaxGraphPeers == 2  \* Peers whose attach and detach are followed statement by statement
MaxOffersIn == 2    \* inbound offers one Peer's handle_sdp accepts, followed statement by statement
MaxCands == 2       \* candidates one Peer's webrtcbin discovers, followed statement by statement
MaxMixPeers == 2    \* Peers whose video stream is linked to the mixer, statement by statement

(***************************************************************************)
(* Program constants.                                                      *)
(***************************************************************************)
VIDEO_WIDTH == 1024
VIDEO_HEIGHT == 768
(***************************************************************************)
(* relayout_videomixer.                                                    *)
(***************************************************************************)
\* The (width, height) grid chosen from the number of pads left after the
\* first one has been removed.
GridFor_capless(npads) ==
    IF npads <= 1 THEN <<1, 1>>
    ELSE IF npads <= 4 THEN <<2, 2>>
    ELSE IF npads <= 16 THEN <<4, 4>>
    ELSE <<8, 8>>

GridFor_offbyone(npads) ==
    IF npads < 1 THEN <<1, 1>>
    ELSE IF npads < 4 THEN <<2, 2>>
    ELSE IF npads < 16 THEN <<4, 4>>
    ELSE <<4, 4>>

GridFor(npads) ==
    IF npads <= 1 THEN <<1, 1>>
    ELSE IF npads <= 4 THEN <<2, 2>>
    ELSE IF npads <= 16 THEN <<4, 4>>
    ELSE <<4, 4>>

\* The loop's wrap test after x += w.
RowFull_strict(x) == x > VIDEO_WIDTH

RowFull(x) == x >= VIDEO_WIDTH

LayIdle == [pc |-> "idle", sinkPads |-> 0, npads |-> 0, cols |-> 0, rows |-> 0,
            x |-> 0, y |-> 0, w |-> 0, h |-> 0, tiles |-> <<>>]

\* get_sink_pads(), the is_empty() return, pads.remove(0), the grid and the
\* tile size.
RelayoutBegin ==
    /\ lay.pc = "start"
    /\ IF lay.sinkPads = 0
       THEN lay' = [lay EXCEPT !.pc = "done"]
       ELSE LET npads == lay.sinkPads - 1
                grid  == GridFor(npads)
            IN lay' = [lay EXCEPT !.pc = "loop", !.npads = npads,
                                  !.cols = grid[1], !.rows = grid[2],
                                  !.x = 0, !.y = 0,
                                  !.w = VIDEO_WIDTH \div grid[1],
                                  !.h = VIDEO_HEIGHT \div grid[2]]
    /\ UNCHANGED <<codecVars, graphVars, stmtVars, mainVars>>

\* One iteration of "for pad in pads": set xpos, ypos, width, height, advance.
RelayoutPad ==
    /\ lay.pc = "loop"
    /\ Len(lay.tiles) < lay.npads
    /\ LET tile == [x |-> lay.x, y |-> lay.y, w |-> lay.w, h |-> lay.h]
           nx   == lay.x + lay.w
       IN lay' = [lay EXCEPT !.tiles = Append(lay.tiles, tile),
                             !.x = IF RowFull(nx) THEN 0 ELSE nx,
                             !.y = IF RowFull(nx) THEN lay.y + lay.h ELSE lay.y]
    /\ UNCHANGED <<codecVars, graphVars, stmtVars, mainVars>>

\* The loop has visited every pad.
RelayoutEnd ==
    /\ lay.pc = "loop"
    /\ Len(lay.tiles) = lay.npads
    /\ lay' = [lay EXCEPT !.pc = "done"]
    /\ UNCHANGED <<codecVars, graphVars, stmtVars, mainVars>>

(***************************************************************************)
(* JsonMsg and its serde encoding.  A JSON text is modelled by the value   *)
(* it denotes: an object is a sequence of <<key, value>> members, a string *)
(* is [str |-> s], a number is [num |-> its decimal digits].               *)
(***************************************************************************)
Digits == <<"0", "1", "2", "3", "4", "5", "6", "7", "8", "9">>

DigitVal(c) == (CHOOSE k \in 1..10 : Digits[k] = c) - 1

IsDigit(c) == \E k \in 1..10 : Digits[k] = c

\* Decimal formatting of an unsigned integer ({} of format!, serde's u32).
RECURSIVE FmtU32(_)
FmtU32(n) == IF n < 10 THEN <<Digits[n + 1]>>
             ELSE Append(FmtU32(n \div 10), Digits[(n % 10) + 1])

RECURSIVE DecVal(_)
DecVal(s) == IF s = <<>> THEN 0
             ELSE 10 * DecVal(SubSeq(s, 1, Len(s) - 1)) + DigitVal(s[Len(s)])

\* u32::MAX as decimal digits: what fits is decided on the digits.
U32MaxDigits == <<"4", "2", "9", "4", "9", "6", "7", "2", "9", "5">>

RECURSIVE StripZeros(_)
StripZeros(s) == IF Len(s) > 1 /\ s[1] = "0" THEN StripZeros(Tail(s)) ELSE s

\* s <= t for digit sequences of one length.
RECURSIVE DigitsLeq(_, _)
DigitsLeq(s, t) ==
    IF s = <<>> THEN TRUE
    ELSE IF DigitVal(s[1]) < DigitVal(t[1]) THEN TRUE
    ELSE IF DigitVal(s[1]) > DigitVal(t[1]) THEN FALSE
    ELSE DigitsLeq(Tail(s), Tail(t))

FitsU32(d) ==
    LET z == StripZeros(d)
    IN \/ Len(z) < Len(U32MaxDigits)
       \/ Len(z) = Len(U32MaxDigits) /\ DigitsLeq(z, U32MaxDigits)

\* str::parse::<u32>: an optional '+', then one or more digits, no overflow;
\* -1 stands for Err.
ParseU32(s) ==
    LET body == IF s # <<>> /\ s[1] = "+" THEN Tail(s) ELSE s
    IN IF body = <<>> \/ (\E k \in 1..Len(body) : ~IsDigit(body[k])) THEN -1
       ELSE IF ~FitsU32(body) THEN -1
       ELSE DecVal(StripZeros(body))

\* A JSON number read as u32: digits only, no leading zero, no overflow.
JsonU32(d) ==
    IF d = <<>> \/ (\E k \in 1..Len(d) : ~IsDigit(d[k])) THEN -1
    ELSE IF Len(d) > 1 /\ d[1] = "0" THEN -1
    ELSE IF ~FitsU32(d) THEN -1
    ELSE DecVal(d)

Ice(candidate, mline) ==
    [variant |-> "Ice", candidate |-> candidate, sdp_mline_index |-> mline]

Sdp(type, sdp) == [variant |-> "Sdp", type_ |-> type, sdp |-> sdp]

JStr(s) == [str |-> s]
JNum(n) == [num |-> FmtU32(n)]
JObj(members) == [obj |-> members]

IsStr(v) == DOMAIN v = {"str"}
IsNum(v) == DOMAIN v = {"num"}
IsObj(v) == DOMAIN v = {"obj"}

\* The field names serde writes: rename_all = "lowercase" on the variants,
\* rename on sdp_mline_index and type_.
TagOf_verbatim(variant) == variant

TagOf(variant) == IF variant = "Ice" THEN "ice" ELSE "sdp"

MLineKey_unrenamed == "sdp_mline_index"

MLineKey == "sdpMLineIndex"

TypeKey == "type"

\* serde_json::to_string(&JsonMsg): externally tagged, fields in declaration order.
ToJson(m) ==
    IF m.variant = "Ice"
    THEN JObj(<< <<TagOf("Ice"),
                   JObj(<< <<"candidate", JStr(m.candidate)>>,
                           <<MLineKey, JNum(m.sdp_mline_index)>> >>)>> >>)
    ELSE JObj(<< <<TagOf("Sdp"),
                   JObj(<< <<TypeKey, JStr(m.type_)>>,
                           <<"sdp", JStr(m.sdp)>> >>)>> >>)

DecodeErr == [variant |-> "Err"]

Members(o, key) == {k \in 1..Len(o.obj) : o.obj[k][1] = key}

Field(o, key) == o.obj[CHOOSE k \in Members(o, key) : TRUE][2]

\* serde_json::from_str::<JsonMsg>: an object with exactly one member naming
\* the variant, whose value is an object holding each field once; fields
\* serde does not know are skipped.
FromJson(v) ==
    IF ~IsObj(v) \/ Len(v.obj) # 1 THEN DecodeErr
    ELSE LET tag  == v.obj[1][1]
             body == v.obj[1][2]
         IN IF ~IsObj(body) THEN DecodeErr
            ELSE IF tag = "ice"
            THEN IF /\ Cardinality(Members(body, "candidate")) = 1
                    /\ Cardinality(Members(body, "sdpMLineIndex")) = 1
                    /\ IsStr(Field(body, "candidate"))
                    /\ IsNum(Field(body, "sdpMLineIndex"))
                    /\ JsonU32(Field(body, "sdpMLineIndex").num) >= 0
                 THEN Ice(Field(body, "candidate").str,
                          JsonU32(Field(body, "sdpMLineIndex").num))
                 ELSE DecodeErr
            ELSE IF tag = "sdp"
            THEN IF /\ Cardinality(Members(body, "type")) = 1
                    /\ Cardinality(Members(body, "sdp")) = 1
                    /\ IsStr(Field(body, "type"))
                    /\ IsStr(Field(body, "sdp"))
                 THEN Sdp(Field(body, "type").str, Field(body, "sdp").str)
                 ELSE DecodeErr
            ELSE DecodeErr

\* The strings and indices the codec is exercised on.
Candidates == {"", "candidate:1 1 UDP 2122 10.0.0.1 50000 typ host", "a b", "\"q\""}
SdpTypes   == {"offer", "answer", "pranswer", ""}
SdpBodies  == {"v=0", "", "garbage", "v=0 a=x"}
MLines     == 0..MaxMLine \cup {10, 65535}

JsonMsgs == {Ice(c, n) : c \in Candidates, n \in MLines}
            \cup {Sdp(t, s) : t \in SdpTypes, s \in SdpBodies}

CodecIdle == [pc |-> "idle", msg |-> DecodeErr, wire |-> JObj(<<>>), out |-> DecodeErr]

Encode ==
    /\ codec.pc = "msg"
    /\ codec' = [codec EXCEPT !.pc = "wire", !.wire = ToJson(codec.msg)]
    /\ UNCHANGED <<layVars, graphVars, stmtVars, mainVars>>

Decode ==
    /\ codec.pc = "wire"
    /\ codec' = [codec EXCEPT !.pc = "decoded", !.out = FromJson(codec.wire)]
    /\ UNCHANGED <<layVars, graphVars, stmtVars, mainVars>>

(***************************************************************************)
(* The pipeline around a Peer's bin, statement by statement: add_peer's    *)
(* attach on the loop's thread, the closure it hands to call_async, the    *)
(* link of a decoded stream to its mixer, and the closure remove_peer      *)
(* hands to call_async.  The closures of different Peers, and the attach   *)
(* and detach closures of one Peer, run on the engine's thread pool and    *)
(* interleave.                                                             *)
(***************************************************************************)
GPeers == 1..MaxGraphPeers

Media == {"audio", "video"}

GraphIdle ==
    [ loop     |-> 0,                                   \* the Peer add_peer is running for
      apc      |-> [p \in GPeers |-> "absent"],         \* position of add_peer and its closure
      dpc      |-> [p \in GPeers |-> "none"],           \* position of remove_peer's closure
      bin      |-> [p \in GPeers |-> "none"],           \* peer.bin: "added", "playing",
                                                        \* "failed", "removed", "null"
      srcPad   |-> [p \in GPeers |-> [m \in Media |-> "none"]],   \* the tee's src pad for the
                                                        \* Peer: "requested", "linked",
                                                        \* "unlinked", "released"
      srcBlock |-> [p \in GPeers |-> [m \in Media |-> FALSE]],    \* add_peer's probe is on it
      teeBlock |-> [m \in Media |-> {}],                \* Peers whose detach has a probe on
                                                        \* the tee's sink pad
      mixPad   |-> [p \in GPeers |-> [m \in Media |-> "none"]],   \* the mixer's sink pad for
                                                        \* the Peer: "linked", "released"
      err      |-> [p \in GPeers |-> FALSE] ]           \* gst_element_error! posted on the bin

GraphFrame == UNCHANGED <<layVars, codecVars, stmtVars, mainVars>>

\* What add_peer and its closure do next after a step on media m.
AfterLink(m) == IF m = "audio" THEN "video_req" ELSE "call_async"

AfterUnblock(m) == IF m = "audio" THEN "video_unblock" ELSE "attached"

AfterTeeUnblock(m) == IF m = "audio" THEN "video_unlink" ELSE "remove_bin"

Pc(m, step) == IF m = "audio" THEN "audio_" \o step ELSE "video_" \o step

\* self.pipeline.add(&peer.bin), after the Peer has been inserted in the table.
G_PipelineAdd(p) ==
    /\ graph.loop = 0
    /\ graph.apc[p] = "absent"
    /\ graph' = [graph EXCEPT !.loop = p, !.bin[p] = "added", !.apc[p] = "audio_req"]
    /\ GraphFrame

\* tee.get_request_pad("src_%u")
G_RequestPad(p, m) ==
    /\ graph.apc[p] = Pc(m, "req")
    /\ graph' = [graph EXCEPT !.srcPad[p][m] = "requested", !.apc[p] = Pc(m, "probe")]
    /\ GraphFrame

\* Where the blocking probes go: remove_peer's closure puts its own on the
\* tee's sink pad, add_peer on the src pad it requested.
ProbeOnTeeSink_skipped(g, p, m) == g

ProbeOnSrcPad_skipped(g, p, m) == g

ProbeOnSrcPad_teesink(g, p, m) == [g EXCEPT !.teeBlock[m] = @ \cup {p}]

ProbeOnTeeSink(g, p, m) == [g EXCEPT !.teeBlock[m] = @ \cup {p}]

ProbeOnSrcPad(g, p, m) == [g EXCEPT !.srcBlock[p][m] = TRUE]

\* src_pad.add_probe(BLOCK_DOWNSTREAM, ..)
G_AddProbe(p, m) ==
    /\ graph.apc[p] = Pc(m, "probe")
    /\ graph' = [ProbeOnSrcPad(graph, p, m) EXCEPT !.apc[p] = Pc(m, "link")]
    /\ GraphFrame

\* src_pad.link(&sink_pad)?
G_Link(p, m) ==
    /\ graph.apc[p] = Pc(m, "link")
    /\ \E linked \in BOOLEAN :
         graph' = IF linked
                  THEN [graph EXCEPT !.srcPad[p][m] = "linked", !.apc[p] = AfterLink(m)]
                  ELSE [graph EXCEPT !.apc[p] = "link_failed", !.loop = 0]
    /\ GraphFrame

\* peer.bin.call_async(..); Ok(())
G_CallAsync(p) ==
    /\ graph.apc[p] = "call_async"
    /\ graph' = [graph EXCEPT !.apc[p] = "queued", !.loop = 0]
    /\ GraphFrame

\* The closure: bin.sync_state_with_parent(), gst_element_error! if it failed.
\* A bin that has been taken out of the pipeline has no parent to follow.
G_SyncState(p) ==
    /\ graph.apc[p] = "queued"
    /\ \E synced \in BOOLEAN :
         graph' = IF synced /\ graph.bin[p] = "added"
                  THEN [graph EXCEPT !.bin[p] = "playing", !.apc[p] = "audio_unblock"]
                  ELSE [graph EXCEPT !.bin[p] = IF @ = "added" THEN "failed" ELSE @,
                                     !.err[p] = TRUE, !.apc[p] = "audio_unblock"]
    /\ GraphFrame

\* The closure: src_pad.remove_probe(block)
G_RemoveProbe(p, m) ==
    /\ graph.apc[p] = Pc(m, "unblock")
    /\ graph' = [graph EXCEPT !.srcBlock[p][m] = FALSE, !.apc[p] = AfterUnblock(m)]
    /\ GraphFrame

\* peer.bin's pad-added handler for audio_src / video_src: a sink pad of the
\* mixer is requested and linked.
G_PadAdded(p, m) ==
    /\ graph.bin[p] = "playing"
    /\ graph.mixPad[p][m] = "none"
    /\ graph' = [graph EXCEPT !.mixPad[p][m] = "linked"]
    /\ GraphFrame

\* remove_peer on the loop's thread: the Peer is in the table from add_peer's
\* insert on, also when add_peer returned an error on a link.
G_RemovePeer(p) ==
    /\ graph.loop = 0
    /\ graph.apc[p] \notin {"absent"}
    /\ graph.dpc[p] = "none"
    /\ graph' = [graph EXCEPT !.dpc[p] = "audio_block"]
    /\ GraphFrame

\* The detach closure: tee_sinkpad.add_probe(BLOCK_DOWNSTREAM, ..), audio then video.
G_BlockTee(p, m) ==
    /\ graph.dpc[p] = Pc(m, "block")
    /\ graph' = [ProbeOnTeeSink(graph, p, m) EXCEPT
                    !.dpc[p] = IF m = "audio" THEN "video_block" ELSE "audio_unlink"]
    /\ GraphFrame

\* The detach closure: if let Some(tee_srcpad) = sinkpad.get_peer() { tee_srcpad.unlink(..)
G_Unlink(p, m) ==
    /\ graph.dpc[p] = Pc(m, "unlink")
    /\ graph' = IF graph.srcPad[p][m] = "linked"
                THEN [graph EXCEPT !.srcPad[p][m] = "unlinked", !.dpc[p] = Pc(m, "release")]
                ELSE [graph EXCEPT !.dpc[p] = Pc(m, "teeunblock")]
    /\ GraphFrame

\* The detach closure: tee.release_request_pad(&tee_srcpad) }
G_Release(p, m) ==
    /\ graph.dpc[p] = Pc(m, "release")
    /\ graph' = [graph EXCEPT !.srcPad[p][m] = "released", !.srcBlock[p][m] = FALSE,
                              !.dpc[p] = Pc(m, "teeunblock")]
    /\ GraphFrame

\* The detach closure: tee_sinkpad.remove_probe(block)
G_UnblockTee(p, m) ==
    /\ graph.dpc[p] = Pc(m, "teeunblock")
    /\ graph' = [graph EXCEPT !.teeBlock[m] = @ \ {p}, !.dpc[p] = AfterTeeUnblock(m)]
    /\ GraphFrame

\* A mixer pad linked to the bin is unlinked with the bin's removal, and its
\* unlinked handler releases it.
Unlinked(pad) == IF pad = "linked" THEN "released" ELSE pad

\* The detach closure: app.pipeline.remove(&peer.bin)
G_PipelineRemove(p) ==
    /\ graph.dpc[p] = "remove_bin"
    /\ graph' = [graph EXCEPT !.bin[p] = "removed",
                              !.mixPad[p] = [m \in Media |-> Unlinked(@[m])],
                              !.dpc[p] = "set_null"]
    /\ GraphFrame

\* The detach closure: peer.bin.set_state(gst::State::Null)
G_SetNull(p) ==
    /\ graph.dpc[p] = "set_null"
    /\ graph' = [graph EXCEPT !.bin[p] = "null", !.dpc[p] = "done"]
    /\ GraphFrame

G_AddPeer(p) ==
    \/ G_PipelineAdd(p)
    \/ G_CallAsync(p)
    \/ \E m \in Media : G_RequestPad(p, m) \/ G_AddProbe(p, m) \/ G_Link(p, m)

G_Attach(p) ==
    \/ G_SyncState(p)
    \/ \E m \in Media : G_RemoveProbe(p, m)

G_Detach(p) ==
    \/ G_PipelineRemove(p)
    \/ G_SetNull(p)
    \/ \E m \in Media : G_BlockTee(p, m) \/ G_Unlink(p, m) \/ G_Release(p, m) \/ G_UnblockTee(p, m)

(***************************************************************************)
(* The parts followed statement by statement, before anything has run.     *)
(***************************************************************************)
OffersIn == 1..MaxOffersIn

NegIdle ==
    [ offer      |-> "none",     \* the offer continuation: "promised" (create-offer emitted),
                                 \* then the statement on_offer_created is at, "sent", "failed"
      ans        |-> [k \in OffersIn |-> "none"],   \* the same for inbound offer k: "queued"
                                 \* (call_async), "create_answer", "promised",
                                 \* then the statement on_answer_created is at, "sent",
                                 \* "failed", "rejected"
      did        |-> [k \in OffersIn |-> {}],       \* what has been done for inbound offer k
      localDesc  |-> "none",     \* type last given to set-local-description
      remoteDesc |-> "none",     \* type last given to set-remote-description
      cands      |-> 0,          \* candidates discovered so far
      chan       |-> <<>>,       \* send_msg_tx: the messages sent, oldest first
      errs       |-> 0 ]         \* gst_element_error! posted


MPeers == 1..MaxMixPeers

\* A video mixer pad's xpos, ypos, width and height before anyone set them.
NoTile == [x |-> 0, y |-> 0, w |-> 0, h |-> 0]

\* A handler that is not running, and the locals of relayout_videomixer.
HandlerIdle == [pc |-> "none", after |-> "none", snap |-> <<>>, k |-> 0,
                x |-> 0, y |-> 0, w |-> 0, h |-> 0]

\* The video mixer as App::new leaves it: sink_0, the background pad (0),
\* is its only sink pad.
MixIdle ==
    [ pads |-> <<0>>,                              \* video_mixer.get_sink_pads(), by owner
      tile |-> [p \in MPeers |-> NoTile],          \* the properties set on the Peer's pad
      th   |-> [p \in MPeers |-> HandlerIdle] ]    \* the Peer's pad-added / unlinked handler

\* The loop's thread outside add_peer, remove_peer and
\* handle_websocket_message, with an empty table.
TblIdle ==
    [ pc    |-> "idle",     \* the statement the loop's thread is at
      fn    |-> "none",     \* the function it is in
      id    |-> 0,          \* the peer id of the call
      lock  |-> FALSE,      \* a MutexGuard of self.peers is alive
      table |-> {},         \* the keys of the peers map
      res   |-> "none" ]    \* what the last call returned

StmtIdle == neg = NegIdle /\ mix = MixIdle /\ tbl = TblIdle

\* The statement after s in stmts, or end when s is the last.
After(stmts, s, end) ==
    LET n == CHOOSE n \in 1..Len(stmts) : stmts[n] = s
    IN IF n < Len(stmts) THEN stmts[n + 1] ELSE end
(***************************************************************************)
(* The room protocol.  A text frame is its command word and the parts      *)
(* that follow it, separated by single spaces: the peer id as written      *)
(* (a sequence of characters) and the JSON payload.                        *)
(***************************************************************************)
IdToks == {<<"3">>, <<"5">>, <<"x">>}

\* The ids the peer table is modelled on: every id a token parses to.
PeerIds == {ParseU32(t) : t \in IdToks} \ {-1}

Insts == 1..MaxInst

Text(cmd, nargs, id, payload) ==
    [frame |-> "text", cmd |-> cmd, nargs |-> nargs, id |-> id, payload |-> payload]

NoPayload == JStr("")

GoodSdp == "v=0"
BadSdp  == "garbage"

\* gst_sdp::SDPMessage::parse_buffer succeeds on these bodies.
SdpParses_any(sdp) == TRUE

SdpParses(sdp) == sdp \in {"v=0", "v=0 a=x"}

Payloads ==
    { ToJson(Sdp("offer", GoodSdp)), ToJson(Sdp("offer", BadSdp)),
      ToJson(Sdp("answer", GoodSdp)), ToJson(Sdp("pranswer", GoodSdp)),
      ToJson(Ice("candidate:1", 0)), JStr("junk") }

Texts ==
    { Text("ERROR", 2, <<>>, NoPayload), Text("HELLO", 0, <<>>, NoPayload),
      Text("ROOM_PEER_MSG", 2, <<"x">>, ToJson(Sdp("offer", GoodSdp))),
      Text("ROOM_PEER_MSG", 1, <<"3">>, NoPayload) }
    \cup { Text("ROOM_PEER_MSG", 2, t, p) : t \in IdToks \ {<<"x">>}, p \in Payloads }
    \cup { Text(c, 1, t, NoPayload) : c \in {"ROOM_PEER_JOINED", "ROOM_PEER_LEFT"},
                                      t \in IdToks }

Control(kind) == [frame |-> kind]

\* Ok(Close), Ok(Ping), Ok(Pong), Ok(Binary) and Err(WsError) items of ws_stream.
WsFrames == Texts \cup {Control(k) : k \in {"close", "ping", "pong", "binary", "ioerr"}}

\* ROOM_OK member lists as async_main splits them.
InitialPeerLists == { <<>>, << <<"3">> >>,
                      << <<"3">>, <<"3">> >>, << <<"x">>, <<"5">> >> }

\* The outgoing text "ROOM_PEER_MSG {peer_id} {message}".
PeerMsg(peer_id, message) == Text("ROOM_PEER_MSG", 2, FmtU32(peer_id), ToJson(message))

(***************************************************************************)
(* Peer objects.                                                           *)
(***************************************************************************)
NoPeer ==
    [ peer_id      |-> 0,        \* PeerInner.peer_id
      offer        |-> FALSE,    \* on-negotiation-needed is connected
      tee          |-> "none",   \* add_peer's attach: "blocked" (tee pads requested,
                                 \* probes on, linked, call_async closure not yet run),
                                 \* "open" (closure run, probes removed),
                                 \* "audio_link_failed", "video_link_failed"
      detach       |-> "none",   \* remove_peer's call_async closure: "pending", "done"
      neg          |-> 0,        \* on-negotiation-needed signals raised
      offerPromise |-> 0,        \* create-offer promises not yet replied
      ansAsync     |-> 0,        \* handle_sdp's call_async closures not yet run
      ansPromise   |-> 0,        \* create-answer promises not yet replied
      localDesc    |-> "none",   \* type last given to set-local-description
      remoteDesc   |-> "none",   \* type last given to set-remote-description
      offersIn     |-> 0,        \* inbound offers handle_sdp accepted
      offersOut    |-> 0,        \* Sdp{offer} messages sent
      answersOut   |-> 0,        \* Sdp{answer} messages sent
      iceOut       |-> 0,        \* Ice messages sent
      streams      |-> {},       \* media whose decoded stream is linked to its mixer
      streamErrs   |-> 0,        \* incoming streams on_incoming_stream failed on
      offerErrs    |-> 0,        \* create-offer promises that carried no reply
      answerErrs   |-> 0,        \* create-answer promises that carried no reply
      lastDiscard  |-> "none" ]  \* the last continuation whose upgrade_weak! found
                                 \* the Peer gone

Created(i) == i <= nInst

InTable(i) == Created(i) /\ peers[inst[i].peer_id] = i

\* Some strong reference to the Peer exists: the table's, or the one moved
\* into remove_peer's closure until that closure has run.
Alive(i) ==
    /\ Created(i)
    /\ \/ InTable(i)
       \/ inst[i].detach = "pending"

\* upgrade_weak!(peer_clone, ...)
Upgrade_stale(i) == Created(i)

Upgrade(i) == Alive(i)

\* peers.get(&peer_id): the Peer, or 0 for None.
Lookup(peer_id) == IF peer_id \in PeerIds THEN peers[peer_id] ELSE 0

\* run() has not returned: the process and the engine's threads exist.
ProcessAlive == phase \in {"init", "running"}

\* gst_element_error!: the bus sync handler forwards the message to send_gst_msg_tx.
PostError_dropped == UNCHANGED gstQ

PostError == gstQ' = Append(gstQ, "error")

\* unbounded_send of "ROOM_PEER_MSG {peer_id} {message}" on send_msg_tx.
Emit(peer_id, message) == outQ' = Append(outQ, PeerMsg(peer_id, message))

\* An engine call fails only while the run's faults are not used up.
Outcome(ok) ==
    /\ ok \/ faultsLeft > 0
    /\ faultsLeft' = IF ok THEN faultsLeft ELSE faultsLeft - 1

(***************************************************************************)
(* App::add_peer, App::remove_peer, Peer::handle_sdp, Peer::handle_ice,    *)
(* App::handle_websocket_message.  Each runs on the loop's thread and is   *)
(* one step; it sets lastRes to the Result it returns.                     *)
(***************************************************************************)
Returns(res) == lastRes' = res

Same == UNCHANGED <<peers, nInst, inst, faultsLeft>>

Fail_clearing(res) ==
    /\ Returns(res)
    /\ peers' = [p \in PeerIds |-> 0]
    /\ UNCHANGED <<nInst, inst, faultsLeft>>

Fail(res) == Returns(res) /\ Same

\* What the engine can answer inside add_peer: parse_bin_from_description
\* and the two pad links are the calls whose failure add_peer propagates.
AddPeerOutcomes == {"ok", "bin_failed", "audio_link_failed", "video_link_failed"}

\* peers.contains_key(&peer_id)
ContainsKey_never(peer_id) == FALSE

ContainsKey_ever(peer_id) == \E i \in Insts : Created(i) /\ inst[i].peer_id = peer_id

ContainsKey(peer_id) == Lookup(peer_id) # 0

NewPeer_offering(peer_id, offer, tee) ==
    [NoPeer EXCEPT !.peer_id = peer_id, !.offer = TRUE, !.tee = tee]

NewPeer_nooffer(peer_id, offer, tee) ==
    [NoPeer EXCEPT !.peer_id = peer_id, !.offer = FALSE, !.tee = tee]

NewPeer(peer_id, offer, tee) == [NoPeer EXCEPT !.peer_id = peer_id, !.offer = offer, !.tee = tee]

add_peer(peer, offer) ==
    LET peer_id == ParseU32(peer)
    IN IF peer_id = -1 THEN Fail("parse_id")
       ELSE IF ContainsKey(peer_id) THEN Fail("already_called")
       ELSE \E outcome \in AddPeerOutcomes :
              /\ Outcome(outcome = "ok")
              /\ IF outcome = "bin_failed"
                 THEN Returns("bin_failed") /\ UNCHANGED <<peers, nInst, inst>>
                 ELSE /\ nInst < MaxInst
                      /\ nInst' = nInst + 1
                      /\ peers' = [peers EXCEPT ![peer_id] = nInst + 1]
                      /\ inst' = [inst EXCEPT ![nInst + 1] =
                                     NewPeer(peer_id, offer,
                                             IF outcome = "ok" THEN "blocked" ELSE outcome)]
                      /\ Returns(IF outcome = "ok" THEN "ok" ELSE "link_failed")

remove_peer_strict(peer) ==
    LET peer_id == ParseU32(peer)
    IN IF peer_id = -1 THEN Fail("parse_id")
       ELSE IF Lookup(peer_id) # 0
       THEN /\ peers' = [peers EXCEPT ![peer_id] = 0]
            /\ inst' = [inst EXCEPT ![Lookup(peer_id)].detach = "pending"]
            /\ Returns("ok")
            /\ UNCHANGED <<nInst, faultsLeft>>
       ELSE Fail("no_peer")

remove_peer(peer) ==
    LET peer_id == ParseU32(peer)
    IN IF peer_id = -1 THEN Fail("parse_id")
       ELSE IF Lookup(peer_id) # 0
       THEN /\ peers' = [peers EXCEPT ![peer_id] = 0]
            /\ inst' = [inst EXCEPT ![Lookup(peer_id)].detach = "pending"]
            /\ Returns("ok")
            /\ UNCHANGED <<nInst, faultsLeft>>
       ELSE Fail("ok")

handle_sdp(i, type, sdp) ==
    IF type = "answer"
    THEN IF ~SdpParses(sdp) THEN Fail("sdp_parse")
         ELSE /\ inst' = [inst EXCEPT ![i].remoteDesc = "answer"]
              /\ Returns("ok")
              /\ UNCHANGED <<peers, nInst, faultsLeft>>
    ELSE IF type = "offer"
    THEN IF ~SdpParses(sdp) THEN Fail("sdp_parse")
         ELSE /\ inst' = [inst EXCEPT ![i].ansAsync = @ + 1, ![i].offersIn = @ + 1]
              /\ Returns("ok")
              /\ UNCHANGED <<peers, nInst, faultsLeft>>
    ELSE Fail("sdp_type")

\* add-ice-candidate is emitted on webrtcbin; nothing of the Peer changes.
handle_ice(i, sdp_mline_index, candidate) == Fail("ok")

StartsWithError(msg) == msg.cmd = "ERROR"

handle_websocket_message(msg) ==
    IF StartsWithError(msg) THEN Fail("error_message")
    ELSE IF msg.cmd = "ROOM_PEER_MSG" /\ msg.nargs >= 1
    THEN LET peer_id == ParseU32(msg.id)
             json    == FromJson(msg.payload)
         IN IF peer_id = -1 THEN Fail("parse_id")
            ELSE IF Lookup(peer_id) = 0 THEN Fail("no_peer")
            ELSE IF msg.nargs < 2 THEN Fail("no_payload")
            ELSE IF json = DecodeErr THEN Fail("json")
            ELSE IF json.variant = "Sdp"
            THEN handle_sdp(Lookup(peer_id), json.type_, json.sdp)
            ELSE handle_ice(Lookup(peer_id), json.sdp_mline_index, json.candidate)
    ELSE IF msg.cmd = "ROOM_PEER_JOINED" /\ msg.nargs >= 1 THEN add_peer(msg.id, FALSE)
    ELSE IF msg.cmd = "ROOM_PEER_LEFT" /\ msg.nargs >= 1 THEN remove_peer(msg.id)
    ELSE Fail("ok")

(***************************************************************************)
(* run(): App::new, then the message loop.                                 *)
(***************************************************************************)
\* lastOp and lastRes describe the step just taken when it was one of the
\* loop's: the frame's command (or the kind of a control frame), the Peer
\* the table held for the id it names (0: none), what the payload of a
\* ROOM_PEER_MSG that reached a Peer was, and the Result of the handler.
\* A step of the engine's threads resets them.
Op(cmd, id, i, what) == [cmd |-> cmd, id |-> id, inst |-> i, what |-> what]

NoOp == Op("none", -1, 0, "none")

WhatOf(msg) ==
    IF msg.cmd # "ROOM_PEER_MSG" \/ msg.nargs < 2 \/ Lookup(ParseU32(msg.id)) = 0 THEN "none"
    ELSE LET json == FromJson(msg.payload)
         IN IF json = DecodeErr THEN "junk"
            ELSE IF json.variant = "Ice" THEN "ice"
            ELSE json.type_

OpOf(f) ==
    IF f.frame = "text" THEN Op(f.cmd, ParseU32(f.id), Lookup(ParseU32(f.id)), WhatOf(f))
    ELSE Op(f.frame, -1, 0, "none")

\* App::new: "for peer in initial_peers { app.add_peer(peer, true)?; }"
AppNewAddPeer ==
    /\ phase = "init"
    /\ initIdx <= Len(initPeers)
    /\ add_peer(initPeers[initIdx], TRUE)
    /\ lastOp' = Op("initial_peer", ParseU32(initPeers[initIdx]),
                    Lookup(ParseU32(initPeers[initIdx])), "none")
    /\ initIdx' = initIdx + 1
    /\ phase' = IF lastRes' # "ok" THEN "done_err"
                ELSE IF initIdx = Len(initPeers) THEN "running"
                ELSE "init"
    /\ UNCHANGED <<layVars, codecVars, graphVars, stmtVars, initPeers, wsLeft, iceLeft, gstQ, outQ>>

\* ws_sink.send(..).await?
SinkSend_ignored == phase' = phase /\ \E sent \in BOOLEAN : Returns(IF sent THEN "ok" ELSE "ws_error")

SinkSend ==
    \E sent \in BOOLEAN :
        /\ phase' = IF sent THEN phase ELSE "done_err"
        /\ Returns(IF sent THEN "ok" ELSE "ws_error")

\* The ws_stream arm of select! on frame f.
LoopWsFrame(f) ==
    /\ phase = "running"
    /\ wsLeft > 0
    /\ wsLeft' = wsLeft - 1
    /\ lastOp' = OpOf(f)
    /\ IF f.frame = "text" THEN handle_websocket_message(f) /\ phase' = phase
       ELSE /\ Same
            /\ IF f.frame = "ioerr" THEN phase' = "done_err" /\ Returns("ws_error")
               ELSE IF f.frame = "close" THEN phase' = "done_ok" /\ Returns("ok")
               ELSE IF f.frame = "ping" THEN SinkSend
               ELSE phase' = phase /\ Returns("ok")
    /\ UNCHANGED <<layVars, codecVars, graphVars, stmtVars, initPeers, initIdx, iceLeft, gstQ, outQ>>

LoopWs == \E f \in WsFrames : LoopWsFrame(f)

\* App::handle_pipeline_message
handle_pipeline_message_lenient(message) == "ok"

handle_pipeline_message(message) == IF message = "error" THEN "pipeline_error" ELSE "ok"

\* The send_gst_msg_rx arm of select!.
LoopGst ==
    /\ phase = "running"
    /\ gstQ # <<>>
    /\ gstQ' = Tail(gstQ)
    /\ Returns(handle_pipeline_message(Head(gstQ)))
    /\ phase' = IF lastRes' = "ok" THEN phase ELSE "done_err"
    /\ lastOp' = Op("bus_message", -1, 0, Head(gstQ))
    /\ UNCHANGED <<layVars, codecVars, graphVars, stmtVars, initPeers, initIdx, wsLeft, iceLeft, faultsLeft,
                   outQ, peers, nInst, inst>>

\* The send_ws_msg_rx arm of select! and ws_sink.send(ws_msg).await?.
LoopOut_lifo ==
    /\ phase = "running"
    /\ outQ # <<>>
    /\ outQ' = SubSeq(outQ, 1, Len(outQ) - 1)
    /\ SinkSend
    /\ lastOp' = Op("forward", -1, 0, "none")
    /\ UNCHANGED <<layVars, codecVars, graphVars, stmtVars, initPeers, initIdx, wsLeft, iceLeft, faultsLeft,
                   gstQ, peers, nInst, inst>>

LoopOut ==
    /\ phase = "running"
    /\ outQ # <<>>
    /\ outQ' = Tail(outQ)
    /\ SinkSend
    /\ lastOp' = Op("forward", -1, 0, "none")
    /\ UNCHANGED <<layVars, codecVars, graphVars, stmtVars, initPeers, initIdx, wsLeft, iceLeft, faultsLeft,
                   gstQ, peers, nInst, inst>>

(***************************************************************************)
(* What runs on the engine's threads: call_async closures, signal          *)
(* handlers and promise change functions.  They leave the loop's own       *)
(* variables alone.                                                        *)
(***************************************************************************)
EngineFrame ==
    /\ lastOp' = NoOp
    /\ lastRes' = "none"
    /\ UNCHANGED <<layVars, codecVars, graphVars, stmtVars, phase, initPeers, initIdx, wsLeft, peers, nInst>>

\* A signal handler connected to the Peer's webrtcbin is invoked; it may be
\* running when the Peer has already been dropped.
Signals(i) == ProcessAlive /\ Created(i)

\* add_peer's peer.bin.call_async closure: sync_state_with_parent, an error
\* on the bus if that fails, then both probes removed.
AttachAsync(i) ==
    /\ ProcessAlive
    /\ Created(i)
    /\ inst[i].tee = "blocked"
    /\ \E synced \in BOOLEAN :
         /\ Outcome(synced)
         /\ IF synced THEN UNCHANGED gstQ ELSE PostError
    /\ inst' = [inst EXCEPT ![i].tee = "open"]
    /\ UNCHANGED <<iceLeft, outQ>>
    /\ EngineFrame

\* remove_peer's pipeline.call_async closure: block the tees, unlink and
\* release the peer's tee pads, unblock, remove the bin (its pads are
\* unlinked and the mixer pads' unlinked handlers release them), set it to
\* Null; the Peer moved into the closure is dropped when it returns.
DetachAsync(i) ==
    /\ ProcessAlive
    /\ Created(i)
    /\ inst[i].detach = "pending"
    /\ inst' = [inst EXCEPT ![i].detach = "done", ![i].streams = {}]
    /\ UNCHANGED <<iceLeft, faultsLeft, gstQ, outQ>>
    /\ EngineFrame

\* The on-negotiation-needed handler: Peer::on_negotiation_needed emits
\* create-offer with a promise.
NegotiationNeeded(i) ==
    /\ Signals(i)
    /\ inst[i].offer
    /\ inst[i].neg < MaxNeg
    /\ inst' = IF Upgrade(i)
               THEN [inst EXCEPT ![i].neg = @ + 1, ![i].offerPromise = @ + 1]
               ELSE [inst EXCEPT ![i].neg = @ + 1, ![i].lastDiscard = "negotiation"]
    /\ UNCHANGED <<iceLeft, faultsLeft, gstQ, outQ>>
    /\ EngineFrame

\* The create-offer promise's change function: Peer::on_offer_created sets
\* the local description and sends the offer to send_msg_tx.
on_offer_created(i) ==
    /\ ProcessAlive
    /\ Created(i)
    /\ inst[i].offerPromise > 0
    /\ IF ~Upgrade(i)
       THEN /\ inst' = [inst EXCEPT ![i].offerPromise = @ - 1, ![i].lastDiscard = "offer"]
            /\ UNCHANGED <<gstQ, outQ, faultsLeft>>
       ELSE \E replied \in BOOLEAN :
              /\ Outcome(replied)
              /\ IF replied
                 THEN /\ inst' = [inst EXCEPT ![i].offerPromise = @ - 1,
                                              ![i].localDesc = "offer",
                                              ![i].offersOut = @ + 1]
                      /\ Emit(inst[i].peer_id, Sdp("offer", GoodSdp))
                      /\ UNCHANGED gstQ
                 ELSE /\ inst' = [inst EXCEPT ![i].offerPromise = @ - 1,
                                              ![i].offerErrs = @ + 1]
                      /\ PostError
                      /\ UNCHANGED outQ
    /\ UNCHANGED iceLeft
    /\ EngineFrame

\* handle_sdp's bin.call_async closure: set-remote-description(offer),
\* create-answer with a promise.
AnswerAsync(i) ==
    /\ ProcessAlive
    /\ Created(i)
    /\ inst[i].ansAsync > 0
    /\ inst' = IF Upgrade(i)
               THEN [inst EXCEPT ![i].ansAsync = @ - 1,
                                 ![i].ansPromise = @ + 1,
                                 ![i].remoteDesc = "offer"]
               ELSE [inst EXCEPT ![i].ansAsync = @ - 1, ![i].lastDiscard = "set_remote"]
    /\ UNCHANGED <<iceLeft, faultsLeft, gstQ, outQ>>
    /\ EngineFrame

\* The create-answer promise's change function: Peer::on_answer_created
\* sets the local description and sends the answer to send_msg_tx.
on_answer_created(i) ==
    /\ ProcessAlive
    /\ Created(i)
    /\ inst[i].ansPromise > 0
    /\ IF ~Upgrade(i)
       THEN /\ inst' = [inst EXCEPT ![i].ansPromise = @ - 1, ![i].lastDiscard = "answer"]
            /\ UNCHANGED <<gstQ, outQ, faultsLeft>>
       ELSE \E replied \in BOOLEAN :
              /\ Outcome(replied)
              /\ IF replied
                 THEN /\ inst' = [inst EXCEPT ![i].ansPromise = @ - 1,
                                              ![i].localDesc = "answer",
                                              ![i].answersOut = @ + 1]
                      /\ Emit(inst[i].peer_id, Sdp("answer", GoodSdp))
                      /\ UNCHANGED gstQ
                 ELSE /\ inst' = [inst EXCEPT ![i].ansPromise = @ - 1,
                                              ![i].answerErrs = @ + 1]
                      /\ PostError
                      /\ UNCHANGED outQ
    /\ UNCHANGED iceLeft
    /\ EngineFrame

\* The on-ice-candidate handler: Peer::on_ice_candidate.  webrtcbin gathers
\* candidates once a local description is set.
IceCandidate(i) ==
    /\ Signals(i)
    /\ inst[i].localDesc # "none"
    /\ iceLeft > 0
    /\ iceLeft' = iceLeft - 1
    /\ IF Upgrade(i)
       THEN /\ Emit(inst[i].peer_id, Ice("candidate:1", 0))
            /\ inst' = [inst EXCEPT ![i].iceOut = @ + 1]
       ELSE inst' = [inst EXCEPT ![i].lastDiscard = "ice"] /\ UNCHANGED outQ
    /\ UNCHANGED <<faultsLeft, gstQ>>
    /\ EngineFrame

\* Decoded streams of one Peer linked to the mixers.
StreamCount(i) == Cardinality(inst[i].streams)

\* Decoded streams of the Peers 1..n.
RECURSIVE StreamsUpTo(_)
StreamsUpTo(n) == IF n = 0 THEN 0 ELSE StreamCount(n) + StreamsUpTo(n - 1)

\* Decoded streams of all Peers linked to the mixers.
Streams == StreamsUpTo(MaxInst)

\* webrtcbin's pad-added handler for a stream coming in from the peer:
\* Peer::on_incoming_stream makes the decoding bin and adds the bin's
\* audio_src or video_src pad, and the bin's pad-added handler links it to
\* a new pad of the mixer; a failure is posted on the bus.
IncomingStream(i) ==
    /\ Signals(i)
    /\ inst[i].remoteDesc # "none"
    /\ Streams < MaxStreams
    /\ IF ~Upgrade(i)
       THEN /\ inst' = [inst EXCEPT ![i].lastDiscard = "stream"]
            /\ UNCHANGED <<gstQ, faultsLeft>>
       ELSE \E media \in {"audio", "video"} \ inst[i].streams : \E handled \in BOOLEAN :
              /\ Outcome(handled)
              /\ IF handled
                 THEN /\ inst' = [inst EXCEPT ![i].streams = @ \cup {media}]
                      /\ UNCHANGED gstQ
                 ELSE /\ inst' = [inst EXCEPT ![i].streamErrs = @ + 1]
                      /\ PostError
    /\ UNCHANGED <<iceLeft, outQ>>
    /\ EngineFrame

\* An element posts an error or a warning on the bus by itself.
BusMessage ==
    /\ ProcessAlive
    /\ faultsLeft > 0
    /\ faultsLeft' = faultsLeft - 1
    /\ \E kind \in {"error", "warning"} : gstQ' = Append(gstQ, kind)
    /\ UNCHANGED <<iceLeft, outQ, inst>>
    /\ EngineFrame

Engine(i) ==
    \/ AttachAsync(i)
    \/ DetachAsync(i)
    \/ NegotiationNeeded(i)
    \/ on_offer_created(i)
    \/ AnswerAsync(i)
    \/ on_answer_created(i)
    \/ IceCandidate(i)
    \/ IncomingStream(i)

\* The state run() starts from, for a ROOM_OK member list and a number of
\* frames the server will still send.
Start(lists, frames) ==
    /\ lay = LayIdle
    /\ codec = CodecIdle
    /\ graph = GraphIdle
    /\ StmtIdle
    /\ initPeers \in lists
    /\ phase = IF initPeers = <<>> THEN "running" ELSE "init"
    /\ initIdx = 1
    /\ wsLeft = frames
    /\ iceLeft = MaxIce
    /\ faultsLeft = MaxFaults
    /\ gstQ = <<>>
    /\ outQ = <<>>
    /\ peers = [p \in PeerIds |-> 0]
    /\ nInst = 0
    /\ inst = [i \in Insts |-> NoPeer]
    /\ lastOp = NoOp
    /\ lastRes = "none"

Init == Start(InitialPeerLists, MaxWs)

Next ==
    \/ AppNewAddPeer
    \/ LoopWs
    \/ LoopGst
    \/ LoopOut
    \/ BusMessage
    \/ \E i \in Insts : Engine(i)

Spec == Init /\ [][Next]_vars

(***************************************************************************)
(* The same program under the scheduling the engine gives: a closure       *)
(* handed to call_async is run by the engine's thread pool, and a promise  *)
(* is replied to or expires, so its change function is called.  The room   *)
(* here is one the process joins with two members present and that sends   *)
(* MaxWs - 1 frames.                                                        *)
(***************************************************************************)
RoomPeerLists == { << <<"3">> >>, << <<"3">>, <<"5">> >> }

FairInit == Start(RoomPeerLists, MaxWs - 1)

Fairness ==
    \A i \in Insts :
        /\ WF_vars(AttachAsync(i))
        /\ WF_vars(DetachAsync(i))
        /\ WF_vars(on_offer_created(i))
        /\ WF_vars(AnswerAsync(i))
        /\ WF_vars(on_answer_created(i))

FairSpec == FairInit /\ [][Next]_vars /\ Fairness

(***************************************************************************)
(* And under the scheduling of run(): App::new runs to its end, and        *)
(* select! picks among the ready arms pseudo-randomly, so an arm that      *)
(* stays ready is taken.                                                    *)
(***************************************************************************)
LoopFairness ==
    /\ WF_vars(AppNewAddPeer)
    /\ WF_vars(LoopGst)
    /\ WF_vars(LoopOut)

LoopFairSpec == FairSpec /\ LoopFairness

(***************************************************************************)
(* One Peer's negotiation, statement by statement: the create-offer        *)
(* promise's change function (on_offer_created), handle_sdp for an inbound *)
(* offer, the closure it hands to call_async, the create-answer promise's  *)
(* change function (on_answer_created) and the on-ice-candidate handler.   *)
(* The continuations and the handler run on the engine's threads and       *)
(* interleave between any two of their statements.                         *)
(***************************************************************************)
NegFrame == UNCHANGED <<layVars, codecVars, graphVars, mix, tbl, mainVars>>

\* The statements of on_offer_created and of on_answer_created after the
\* reply has been taken, in program order.
on_offer_created_stmts == <<"set_local", "send">>

on_answer_created_stmts_sendfirst == <<"send", "set_local">>

on_answer_created_stmts == <<"set_local", "send">>

\* A message as it lies on send_msg_tx: its kind, the inbound offer an
\* answer replies to, and for a candidate the local description webrtcbin
\* was gathering for.
ChanMsg(kind, k, cause) == [kind |-> kind, k |-> k, cause |-> cause]

\* on-negotiation-needed: Peer::on_negotiation_needed emits create-offer.
N_NegotiationNeeded ==
    /\ neg.offer = "none"
    /\ neg' = [neg EXCEPT !.offer = "promised"]
    /\ NegFrame

\* on_offer_created: "let reply = match reply"; without a reply it bails and
\* the change function posts an error.
N_OfferReply ==
    /\ neg.offer = "promised"
    /\ \E replied \in BOOLEAN :
         neg' = IF replied
                THEN [neg EXCEPT !.offer = on_offer_created_stmts[1]]
                ELSE [neg EXCEPT !.offer = "failed", !.errs = @ + 1]
    /\ NegFrame

\* on_offer_created: emit("set-local-description", &[&offer, ..])
N_OfferSetLocal ==
    /\ neg.offer = "set_local"
    /\ neg' = [neg EXCEPT !.localDesc = "offer",
                          !.offer = After(on_offer_created_stmts, "set_local", "sent")]
    /\ NegFrame

\* on_offer_created: send_msg_tx.lock().unwrap().unbounded_send(..)
N_OfferSend ==
    /\ neg.offer = "send"
    /\ neg' = [neg EXCEPT !.chan = Append(@, ChanMsg("offer", 0, "none")),
                          !.offer = After(on_offer_created_stmts, "send", "sent")]
    /\ NegFrame

\* handle_sdp for an inbound offer, on the loop's thread: parse_buffer, then
\* bin.call_async of the closure.
N_HandleSdpOffer(k) ==
    /\ neg.ans[k] = "none"
    /\ \E sdp \in {GoodSdp, BadSdp} :
         neg' = IF SdpParses(sdp)
                THEN [neg EXCEPT !.ans[k] = "queued"]
                ELSE [neg EXCEPT !.ans[k] = "rejected"]
    /\ NegFrame

\* The closure: emit("set-remote-description", &[&offer, ..])
N_AnswerSetRemote(k) ==
    /\ neg.ans[k] = "queued"
    /\ neg' = [neg EXCEPT !.remoteDesc = "offer",
                          !.did[k] = @ \cup {"set_remote"},
                          !.ans[k] = "create_answer"]
    /\ NegFrame

\* The closure: emit("create-answer", &[.., &promise])
N_AnswerCreate(k) ==
    /\ neg.ans[k] = "create_answer"
    /\ neg' = [neg EXCEPT !.did[k] = @ \cup {"create_answer"}, !.ans[k] = "promised"]
    /\ NegFrame

\* on_answer_created: "let reply = match reply"
N_AnswerReply(k) ==
    /\ neg.ans[k] = "promised"
    /\ \E replied \in BOOLEAN :
         neg' = IF replied
                THEN [neg EXCEPT !.ans[k] = on_answer_created_stmts[1]]
                ELSE [neg EXCEPT !.ans[k] = "failed", !.errs = @ + 1]
    /\ NegFrame

\* on_answer_created: emit("set-local-description", &[&answer, ..])
N_AnswerSetLocal(k) ==
    /\ neg.ans[k] = "set_local"
    /\ neg' = [neg EXCEPT !.localDesc = "answer",
                          !.did[k] = @ \cup {"set_local"},
                          !.ans[k] = After(on_answer_created_stmts, "set_local", "sent")]
    /\ NegFrame

\* on_answer_created: send_msg_tx.lock().unwrap().unbounded_send(..)
N_AnswerSend(k) ==
    /\ neg.ans[k] = "send"
    /\ neg' = [neg EXCEPT !.chan = Append(@, ChanMsg("answer", k, "none")),
                          !.did[k] = @ \cup {"send"},
                          !.ans[k] = After(on_answer_created_stmts, "send", "sent")]
    /\ NegFrame

\* on-ice-candidate: webrtcbin gathers candidates from the moment a local
\* description is set; Peer::on_ice_candidate sends each to send_msg_tx.
N_IceCandidate ==
    /\ neg.localDesc # "none"
    /\ neg.cands < MaxCands
    /\ neg' = [neg EXCEPT !.cands = @ + 1,
                          !.chan = Append(@, ChanMsg("ice", 0, neg.localDesc))]
    /\ NegFrame

(***************************************************************************)
(* The video mixer's pads.  The pad-added handler of a Peer's bin links    *)
(* video_src to a new mixer pad and calls relayout_videomixer; the         *)
(* unlinked handler of that mixer pad releases it and calls                *)
(* relayout_videomixer.  The handlers of different Peers run on different  *)
(* threads of the engine, and relayout_videomixer takes no lock: they      *)
(* interleave between any two pads of its loop.                            *)
(***************************************************************************)
MixFrame == UNCHANGED <<layVars, codecVars, graphVars, neg, tbl, mainVars>>

\* pad-added for video_src: get_request_pad("sink_%u"), pad.link(..); then
\* app.relayout_videomixer().
M_PadAdded(p) ==
    /\ mix.th[p].pc = "none"
    /\ mix' = [mix EXCEPT !.pads = Append(@, p),
                          !.th[p].pc = "relayout", !.th[p].after = "linked"]
    /\ MixFrame

\* unlinked on the mixer's pad (the bin is being removed):
\* release_request_pad(pad); then app.relayout_videomixer().
M_Unlinked(p) ==
    /\ mix.th[p].pc = "linked"
    /\ mix' = [mix EXCEPT !.pads = SelectSeq(@, LAMBDA q : q # p),
                          !.th[p].pc = "relayout", !.th[p].after = "released"]
    /\ MixFrame

\* relayout_videomixer: get_sink_pads(), the is_empty() return,
\* pads.remove(0), the grid and the tile size.
M_RelayoutBegin(p) ==
    /\ mix.th[p].pc = "relayout"
    /\ IF mix.pads = <<>>
       THEN mix' = [mix EXCEPT !.th[p].pc = mix.th[p].after]
       ELSE LET snap == Tail(mix.pads)
                grid == GridFor(Len(snap))
            IN mix' = [mix EXCEPT !.th[p] = [pc |-> "loop", after |-> mix.th[p].after,
                                             snap |-> snap, k |-> 1, x |-> 0, y |-> 0,
                                             w |-> VIDEO_WIDTH \div grid[1],
                                             h |-> VIDEO_HEIGHT \div grid[2]]]
    /\ MixFrame

\* One iteration of "for pad in pads": set xpos, ypos, width, height on the
\* pad of the snapshot, advance.
M_RelayoutPad(p) ==
    LET t  == mix.th[p]
        nx == t.x + t.w
    IN /\ t.pc = "loop"
       /\ t.k <= Len(t.snap)
       /\ mix' = [mix EXCEPT !.tile[t.snap[t.k]] = [x |-> t.x, y |-> t.y, w |-> t.w, h |-> t.h],
                             !.th[p].k = @ + 1,
                             !.th[p].x = IF RowFull(nx) THEN 0 ELSE nx,
                             !.th[p].y = IF RowFull(nx) THEN t.y + t.h ELSE t.y]
       /\ MixFrame

\* The loop has visited every pad of the snapshot; the handler returns.
M_RelayoutEnd(p) ==
    /\ mix.th[p].pc = "loop"
    /\ mix.th[p].k > Len(mix.th[p].snap)
    /\ mix' = [mix EXCEPT !.th[p] = [HandlerIdle EXCEPT !.pc = mix.th[p].after]]
    /\ MixFrame

(***************************************************************************)
(* The peers mutex.  add_peer, remove_peer and the ROOM_PEER_MSG arm of    *)
(* handle_websocket_message, the three places that lock self.peers, run on *)
(* the loop's thread one statement after the other; the guard is alive     *)
(* from lock() to drop(peers) or to the return that leaves its scope.      *)
(***************************************************************************)
LockFrame == UNCHANGED <<layVars, codecVars, graphVars, neg, mix, mainVars>>

\* The statements of the three functions from their lock() on, in program
\* order; the attach of add_peer (request pad, probe, link, for audio and
\* for video) is followed once.
add_peer_stmts_latedrop ==
    <<"lock", "contains_key", "parse_bin", "set_props", "ghost_pads", "insert",
      "pipeline_add", "drop", "connect", "request_pad", "add_probe", "link", "call_async">>

add_peer_stmts ==
    <<"lock", "contains_key", "parse_bin", "set_props", "ghost_pads", "insert", "drop",
      "pipeline_add", "connect", "request_pad", "add_probe", "link", "call_async">>

remove_peer_stmts == <<"lock", "remove", "drop", "call_async">>

handle_websocket_message_stmts == <<"lock", "get", "drop", "from_str", "dispatch">>

Stmts(fn) ==
    CASE fn = "add_peer" -> add_peer_stmts
      [] fn = "remove_peer" -> remove_peer_stmts
      [] OTHER -> handle_websocket_message_stmts

\* The statements that are calls into GStreamer: making the bin and its
\* ghost pads, setting properties, adding the bin to the pipeline,
\* connecting signal handlers, requesting, probing and linking pads,
\* call_async, and handle_sdp / handle_ice acting on webrtcbin.
EngineCalls ==
    {"parse_bin", "set_props", "ghost_pads", "pipeline_add", "connect", "request_pad",
     "add_probe", "link", "call_async", "dispatch"}

\* The calls that can fail, and what the function then returns.
Fallible == {"parse_bin", "link", "from_str"}

\* The thread goes on to the next statement, or to the function's return.
Proceed(t) == [t EXCEPT !.pc = After(Stmts(t.fn), t.pc, "return"), !.res = "ok"]

\* The thread leaves the function early with an error.
Bail(t, err) == [t EXCEPT !.pc = "return", !.res = err]

\* The loop dispatches a frame for a peer id.
T_Call(fn, id) ==
    /\ tbl.pc = "idle"
    /\ tbl' = [tbl EXCEPT !.fn = fn, !.id = id, !.pc = Stmts(fn)[1], !.res = "none"]
    /\ LockFrame

\* self.peers.lock().unwrap()
T_Lock ==
    /\ tbl.pc = "lock"
    /\ ~tbl.lock
    /\ tbl' = [Proceed(tbl) EXCEPT !.lock = TRUE]
    /\ LockFrame

\* add_peer: if peers.contains_key(&peer_id) { bail!(..) }
T_ContainsKey ==
    /\ tbl.pc = "contains_key"
    /\ tbl' = IF tbl.id \in tbl.table THEN Bail(tbl, "already_called") ELSE Proceed(tbl)
    /\ LockFrame

\* add_peer: peers.insert(peer_id, peer.clone())
T_Insert ==
    /\ tbl.pc = "insert"
    /\ tbl' = [Proceed(tbl) EXCEPT !.table = @ \cup {tbl.id}]
    /\ LockFrame

\* remove_peer: if let Some(peer) = peers.remove(&peer_id) { .. }
T_Remove ==
    /\ tbl.pc = "remove"
    /\ tbl' = IF tbl.id \in tbl.table
              THEN [Proceed(tbl) EXCEPT !.table = @ \ {tbl.id}]
              ELSE Bail(tbl, "ok")
    /\ LockFrame

\* handle_websocket_message: peers.get(&peer_id).ok_or_else(..)?.clone()
T_Get ==
    /\ tbl.pc = "get"
    /\ tbl' = IF tbl.id \in tbl.table THEN Proceed(tbl) ELSE Bail(tbl, "no_peer")
    /\ LockFrame

\* drop(peers)
T_Drop ==
    /\ tbl.pc = "drop"
    /\ tbl' = [Proceed(tbl) EXCEPT !.lock = FALSE]
    /\ LockFrame

\* A call into GStreamer, or serde_json::from_str, returns; the ones
\* followed by ? can return an error.
T_Engine ==
    /\ tbl.pc \in EngineCalls \cup Fallible
    /\ \E ok \in BOOLEAN :
         /\ ok \/ tbl.pc \in Fallible
         /\ tbl' = IF ok THEN Proceed(tbl) ELSE Bail(tbl, tbl.pc \o "_failed")
    /\ LockFrame

\* The function returns: a guard still alive leaves its scope.
T_Return ==
    /\ tbl.pc = "return"
    /\ tbl' = [tbl EXCEPT !.pc = "idle", !.lock = FALSE]
    /\ LockFrame

(***************************************************************************)
(* Claims about the peer table and the message loop (Spec).                *)
(***************************************************************************)
\* C1: add_peer for an id that is in the peer table returns an error, and
\* the table, the Peer it holds for the id and that Peer's attachment and
\* negotiation progress are what they were before the call.
C1_DuplicateAddPeerFails ==
    [][ (lastOp'.cmd \in {"ROOM_PEER_JOINED", "initial_peer"} /\ lastOp'.inst # 0)
            => (lastRes' = "already_called" /\ UNCHANGED <<peers, nInst, inst>>) ]_vars

\* A second ROOM_PEER_JOINED for a peer whose negotiation has started.
C1_Witness ==
    /\ lastOp.cmd = "ROOM_PEER_JOINED"
    /\ lastOp.inst # 0
    /\ lastRes = "already_called"
    /\ InTable(lastOp.inst)
    /\ inst[lastOp.inst].neg = 1

\* C2: remove_peer for an id that is not in the peer table returns Ok,
\* leaves the table as it was and starts no detach of any Peer.
C2_RemoveAbsentPeerIsNoOp ==
    [][ (lastOp'.cmd = "ROOM_PEER_LEFT" /\ lastOp'.id # -1 /\ lastOp'.inst = 0)
            => (lastRes' = "ok" /\ UNCHANGED <<peers, nInst, inst>>) ]_vars

\* ROOM_PEER_LEFT for an absent id while another peer is in the table.
C2_Witness ==
    /\ lastOp.cmd = "ROOM_PEER_LEFT"
    /\ lastOp.id # -1
    /\ lastOp.inst = 0
    /\ lastRes = "ok"
    /\ \E i \in Insts : InTable(i) /\ inst[i].detach = "none"

\* The Peer has neither sent nor received an offer and none is being made.
Idle(i) ==
    /\ inst[i].neg = 0
    /\ inst[i].offerPromise = 0
    /\ inst[i].offersOut = 0
    /\ inst[i].offersIn = 0

\* C3: an inbound Sdp{answer} for a peer that is Idle is rejected:
\* set-remote-description is not invoked, the peer's descriptions are
\* unchanged and the loop keeps running.
C3_AnswerInIdleRejected ==
    [][ \A i \in Insts :
          (lastOp'.cmd = "ROOM_PEER_MSG" /\ lastOp'.what = "answer" /\ lastOp'.inst = i /\ Idle(i))
            => /\ lastRes' # "ok"
               /\ inst'[i].remoteDesc = inst[i].remoteDesc
               /\ inst'[i].localDesc = inst[i].localDesc
               /\ phase' = "running" ]_vars

\* C5: a text frame that begins with ERROR ends the loop with an error.
C5_ErrorFrameEndsLoop ==
    [][ lastOp'.cmd = "ERROR" => phase' = "done_err" ]_vars

\* This step puts a message addressed to id on the outbound channel.
Emitted(id) ==
    /\ Len(outQ') = Len(outQ) + 1
    /\ outQ'[Len(outQ')].id = FmtU32(id)

\* A Peer was made for id and the table holds none for it now.
Evicted(id) ==
    /\ peers[id] = 0
    /\ \E i \in Insts : Created(i) /\ inst[i].peer_id = id

\* remove_peer for an id in the table takes the Peer out and starts its detach.
EvictsOnLeft ==
    (lastOp'.cmd = "ROOM_PEER_LEFT" /\ lastOp'.inst # 0)
        => /\ lastRes' = "ok"
           /\ peers'[lastOp'.id] = 0
           /\ inst'[lastOp'.inst].detach = "pending"

\* C6: when ROOM_PEER_LEFT id is processed the peer is taken out of the
\* table, and from then on no message addressed to id is placed on the
\* outbound channel while id is out of the table: a continuation of that
\* peer that resolves later emits nothing.
C6_NothingEmittedAfterEviction ==
    [][ EvictsOnLeft /\ \A id \in PeerIds : Evicted(id) => ~Emitted(id) ]_vars

(***************************************************************************)
(* Claims about what eventually happens (FairSpec).                        *)
(***************************************************************************)
\* The frame is a ROOM_PEER_MSG carrying an Sdp{offer} with this body for a
\* peer in the table.
OfferFrame(f, sdp) ==
    /\ f.cmd = "ROOM_PEER_MSG"
    /\ WhatOf(f) = "offer"
    /\ FromJson(f.payload).sdp = sdp

\* C4 as stated: every inbound Sdp{offer} for a peer in the table is accepted.
C4_EveryOfferAccepted ==
    [][ (lastOp'.cmd = "ROOM_PEER_MSG" /\ lastOp'.what = "offer" /\ lastOp'.inst # 0)
            => lastRes' = "ok" ]_vars

\* handle_sdp accepts an offer whose body parses and rejects, changing
\* nothing, one whose body does not.
OfferAcceptedIffParses ==
    \A f \in Texts :
        /\ (LoopWsFrame(f) /\ OfferFrame(f, GoodSdp))
              => /\ lastRes' = "ok"
                 /\ inst'[lastOp'.inst].offersIn = inst[lastOp'.inst].offersIn + 1
        /\ (LoopWsFrame(f) /\ OfferFrame(f, BadSdp))
              => /\ lastRes' = "sdp_parse"
                 /\ UNCHANGED <<peers, nInst, inst, outQ>>

\* Each answer counted is an Sdp{answer} addressed to the peer's id, put
\* last on the outbound channel.
AnswerIsAddressed ==
    \A i \in Insts :
        inst'[i].answersOut # inst[i].answersOut
            => /\ inst'[i].answersOut = inst[i].answersOut + 1
               /\ outQ' = Append(outQ, PeerMsg(inst[i].peer_id, Sdp("answer", GoodSdp)))

\* C4: every inbound Sdp{offer} whose body parses, for a peer in the table,
\* is accepted, one whose body does not parse is rejected, and for each
\* accepted offer exactly one Sdp{answer} addressed to the peer is
\* eventually put on the outbound channel, provided the peer is not
\* removed, run() has not returned and the engine replies to create-answer.
C4_ParsableOfferAnsweredOnce ==
    /\ [][OfferAcceptedIffParses /\ AnswerIsAddressed]_vars
    /\ [](\A i \in Insts : inst[i].answersOut <= inst[i].offersIn)
    /\ \A i \in Insts : \A k \in 1..MaxWs :
          (inst[i].offersIn = k)
             ~> \/ inst[i].answersOut = k
                \/ ~InTable(i)
                \/ ~ProcessAlive
                \/ inst[i].answerErrs > 0

\* An offer was accepted and its one answer is on the outbound channel.
C4_Witness ==
    \E i \in Insts :
        /\ InTable(i)
        /\ inst[i].offersIn = 1
        /\ inst[i].answersOut = 1
        /\ outQ # <<>>
        /\ outQ[Len(outQ)] = PeerMsg(inst[i].peer_id, Sdp("answer", GoodSdp))

\* The k-th member of the ROOM_OK list is the k-th Peer made.
InitialPeer(k) == k <= Len(initPeers)

\* Each offer counted is an Sdp{offer} addressed to the peer's id, put last
\* on the outbound channel.
OfferIsAddressed ==
    \A i \in Insts :
        inst'[i].offersOut # inst[i].offersOut
            => /\ inst'[i].offersOut = inst[i].offersOut + 1
               /\ outQ' = Append(outQ, PeerMsg(inst[i].peer_id, Sdp("offer", GoodSdp)))

InSession(i) == Created(i) /\ inst[i].detach = "none"

C12_BusErrorStopsLoop ==
    [][ /\ (lastOp'.cmd = "bus_message" /\ lastOp'.what = "error")
            => (phase' = "done_err" /\ lastRes' = "pipeline_error")
        /\ (lastOp'.cmd = "bus_message" /\ lastOp'.what = "warning")
            => (phase' = "running" /\ lastRes' = "ok"
                /\ UNCHANGED <<peers, nInst, inst, outQ, wsLeft>>)
        /\ phase = "done_err" => UNCHANGED <<wsLeft, gstQ, outQ, peers, nInst, inst>> ]_vars

\* The loop ended on a bus error while a frame and an outbound message
\* were still waiting.
C12_Witness ==
    /\ phase = "done_err"
    /\ lastOp.cmd = "bus_message"
    /\ lastOp.what = "error"
    /\ wsLeft > 0
    /\ outQ # <<>>

\* The step is one iteration of the loop that ends it with Ok / with Err.
EndsOk == phase = "running" /\ phase' = "done_ok"

EndsErr == phase = "running" /\ phase' = "done_err"

\* C13: the loop ends with success exactly on a close frame, with an error
\* exactly on an error message from the bus, a failed receive or a failed
\* send, and in no other way.
C13_LoopEndings ==
    [][ phase = "running" =>
          /\ phase' \in {"running", "done_ok", "done_err"}
          /\ EndsOk <=> lastOp'.cmd = "close"
          /\ EndsErr <=> \/ lastOp'.cmd = "bus_message" /\ lastOp'.what = "error"
                         \/ lastOp'.cmd = "ioerr"
                         \/ lastOp'.cmd \in {"ping", "forward"} /\ lastRes' = "ws_error" ]_vars

\* Forwarding an outbound message failed and ended the loop.
C13_Witness ==
    /\ phase = "done_err"
    /\ lastOp.cmd = "forward"
    /\ lastRes = "ws_error"

\* What handle_websocket_message answers to a protocol or peer-state error.
ProtocolErrors == {"parse_id", "no_peer", "no_payload", "json", "sdp_type", "already_called"}

\* C15: a protocol or peer-state error in a room message never ends the
\* loop: the peer table and the Peers are unchanged and the loop goes on.
C15_ProtocolErrorsNotFatal ==
    [][ (phase = "running" /\ lastOp'.cmd \in {"ROOM_PEER_MSG", "ROOM_PEER_JOINED", "ROOM_PEER_LEFT"}
            /\ lastRes' \in ProtocolErrors)
          => (phase' = "running" /\ UNCHANGED <<peers, nInst, inst, outQ, gstQ>>) ]_vars

\* A second room message is rejected after a first was, with a peer in the table.
C15_Witness ==
    /\ phase = "running"
    /\ lastOp.cmd = "ROOM_PEER_MSG"
    /\ lastRes = "sdp_type"
    /\ wsLeft = 0
    /\ \E i \in Insts : InTable(i)

\* This step puts an Sdp{offer} addressed to id on the outbound channel.
OfferEmitted(id) ==
    /\ Len(outQ') = Len(outQ) + 1
    /\ outQ'[Len(outQ')] = PeerMsg(id, Sdp("offer", GoodSdp))

EmittedBy(i) == inst[i].offersOut + inst[i].answersOut + inst[i].iceOut

RECURSIVE EmittedUpTo(_)
EmittedUpTo(n) == IF n = 0 THEN 0 ELSE EmittedBy(n) + EmittedUpTo(n - 1)

TotalEmitted == EmittedUpTo(MaxInst)

\* Messages the loop has taken from the outbound channel and given to the sink.
Forwarded == TotalEmitted - Len(outQ)

\* The outbound channel is first in, first out: a step that changes it
\* either appends one message or is the loop's forward of its head.
OutboundFifo ==
    \/ outQ' = outQ
    \/ Len(outQ') = Len(outQ) + 1 /\ SubSeq(outQ', 1, Len(outQ)) = outQ
    \/ outQ # <<>> /\ outQ' = Tail(outQ) /\ lastOp'.cmd = "forward"

\* C14: while the loop keeps running every message put on the outbound
\* channel is eventually forwarded to the sink, in the order it was put
\* there: the channel is first in, first out, nothing forwarded was not
\* emitted, and a channel that holds messages is drained again.
C14_OutboundForwardedInOrder ==
    /\ [][OutboundFifo]_vars
    /\ [](Forwarded >= 0)
    /\ (outQ # <<>>) ~> (outQ = <<>> \/ phase # "running")

\* Two messages were emitted and both have been forwarded, with a frame
\* taken in between.
C14_Witness ==
    /\ phase = "running"
    /\ TotalEmitted >= 2
    /\ Forwarded = TotalEmitted
    /\ wsLeft = 0

\* An engine operation for some Peer has failed.
EngineFailed ==
    \E i \in Insts : inst[i].offerErrs + inst[i].answerErrs + inst[i].streamErrs > 0

\* A failure counted in this step is posted on the bus channel in the same step.
FailurePosted ==
    \A i \in Insts :
        (\/ inst'[i].offerErrs # inst[i].offerErrs
         \/ inst'[i].answerErrs # inst[i].answerErrs
         \/ inst'[i].streamErrs # inst[i].streamErrs)
            => gstQ' = Append(gstQ, "error")

\* C16 as stated: whenever an engine operation for a peer fails, the loop
\* eventually terminates with an error outcome.
C16_EngineFailureEndsWithError ==
    EngineFailed ~> (phase = "done_err")

\* C16: whenever an engine operation for a peer fails an error is posted
\* on the bus channel, it stays there until the loop takes it, and the
\* loop eventually terminates: with an error, unless it takes a close frame
\* before it takes the error.
C16_EngineFailureEndsLoop ==
    /\ [][FailurePosted]_vars
    /\ [][(gstQ # <<>> /\ gstQ' # gstQ) =>
            (lastOp'.cmd = "bus_message" \/ SubSeq(gstQ', 1, Len(gstQ)) = gstQ)]_vars
    /\ EngineFailed ~> (phase = "done_err" \/ (phase = "done_ok" /\ lastOp.cmd = "close"))

\* An incoming stream could not be handled and the loop ended on the error.
C16_Witness ==
    /\ \E i \in Insts : inst[i].streamErrs = 1
    /\ phase = "done_err"
    /\ lastOp.cmd = "bus_message"
    /\ lastOp.what = "error"

(***************************************************************************)
(* Claims about the peer table across add_peer and remove_peer (Spec).     *)
(***************************************************************************)
\* This step is a call of add_peer from the loop's thread.
AddPeerCalled == lastOp'.cmd \in {"ROOM_PEER_JOINED", "initial_peer"}

\* C27: whenever add_peer returns an error, the peer table holds exactly
\* the entries it held before the call.
C27_FailedAddPeerLeavesTable ==
    [][ (AddPeerCalled /\ lastRes' # "ok") => peers' = peers ]_vars

\* The Peer was taken out of the table and remove_peer's closure has run:
\* no strong reference to it is left.
Gone(i) == Created(i) /\ ~InTable(i) /\ inst[i].detach = "done"

\* This step is a continuation or a signal handler of Peer i: it changes
\* the Peer's record and is not add_peer's attach closure.
CallbackOf(i) == inst'[i] # inst[i] /\ inst'[i].tee = inst[i].tee

\* The step invokes no engine action for Peer i, sends nothing and posts
\* no error.
NoOpFor(i) ==
    /\ outQ' = outQ
    /\ gstQ' = gstQ
    /\ inst'[i].localDesc = inst[i].localDesc
    /\ inst'[i].remoteDesc = inst[i].remoteDesc
    /\ inst'[i].offerPromise <= inst[i].offerPromise
    /\ inst'[i].ansPromise <= inst[i].ansPromise
    /\ inst'[i].streams = inst[i].streams
    /\ inst'[i].lastDiscard # "none"

JoinsAbsent(id) == lastOp'.cmd = "ROOM_PEER_JOINED" /\ lastOp'.id = id /\ Lookup(id) = 0

\* The Peer objects made before this step are as they were.
OthersKept(i) == \A j \in Insts \ {i} : inst'[j] = inst[j]

\* C25: a join for an id that is not in the table, also one whose earlier
\* Peer is still being detached, fails only if the engine fails and otherwise
\* makes a new Peer with nothing negotiated; the detach closure of a Peer
\* changes that Peer only.
C25_RejoinMakesFreshPeer ==
    [][ /\ \A id \in PeerIds :
              JoinsAbsent(id)
                => /\ lastRes' # "ok" => faultsLeft' < faultsLeft
                   /\ lastRes' = "ok"
                        => /\ nInst' = nInst + 1
                           /\ peers'[id] = nInst'
                           /\ inst'[nInst'] = [NoPeer EXCEPT !.peer_id = id, !.tee = "blocked"]
                           /\ OthersKept(nInst')
        /\ \A i \in Insts :
              (inst[i].detach = "pending" /\ inst'[i].detach = "done")
                => (OthersKept(i) /\ peers' = peers) ]_vars

\* Peer 3 has been removed and its detach closure has not run; the join for
\* 3 has just made a second Peer.
C25_Witness ==
    /\ lastOp.cmd = "ROOM_PEER_JOINED"
    /\ lastRes = "ok"
    /\ \E i, j \in Insts :
          /\ i < j
          /\ inst[i].peer_id = inst[j].peer_id
          /\ inst[i].detach = "pending"
          /\ InTable(j)
          /\ inst[j].tee = "blocked"
(***************************************************************************)
(* Specifications of the two pure parts.                                   *)
(***************************************************************************)
\* The message loop's state while only a pure part is exercised.
MainOff ==
    /\ phase = "off"
    /\ initPeers = <<>>
    /\ initIdx = 1
    /\ wsLeft = 0
    /\ iceLeft = 0
    /\ faultsLeft = 0
    /\ gstQ = <<>>
    /\ outQ = <<>>
    /\ peers = [p \in PeerIds |-> 0]
    /\ nInst = 0
    /\ inst = [i \in Insts |-> NoPeer]
    /\ lastOp = NoOp
    /\ lastRes = "none"

\* The video mixer always holds its background pad, sink_0.
LayoutInit ==
    /\ lay \in {[LayIdle EXCEPT !.pc = "start", !.sinkPads = n] : n \in 1..(MaxPads + 1)}
    /\ codec = CodecIdle
    /\ graph = GraphIdle
    /\ StmtIdle
    /\ MainOff

LayoutNext == RelayoutBegin \/ RelayoutPad \/ RelayoutEnd

LayoutSpec == LayoutInit /\ [][LayoutNext]_vars

CodecInit ==
    /\ codec \in {[CodecIdle EXCEPT !.pc = "msg", !.msg = m] : m \in JsonMsgs}
    /\ lay = LayIdle
    /\ graph = GraphIdle
    /\ StmtIdle
    /\ MainOff

CodecNext == Encode \/ Decode

CodecSpec == CodecInit /\ [][CodecNext]_vars

GraphInit ==
    /\ graph = GraphIdle
    /\ StmtIdle
    /\ lay = LayIdle
    /\ codec = CodecIdle
    /\ MainOff

GraphNext == \E p \in GPeers : G_AddPeer(p) \/ G_Attach(p) \/ G_PadAdded(p, "audio")
                                \/ G_PadAdded(p, "video") \/ G_RemovePeer(p) \/ G_Detach(p)

GraphSpec == GraphInit /\ [][GraphNext]_vars


\* Nothing of the parts followed statement by statement has run; the
\* message loop is not exercised.
StmtInit ==
    /\ neg = NegIdle
    /\ mix = MixIdle
    /\ tbl = TblIdle
    /\ lay = LayIdle
    /\ codec = CodecIdle
    /\ graph = GraphIdle
    /\ MainOff

NegNext ==
    \/ N_NegotiationNeeded
    \/ N_OfferReply
    \/ N_OfferSetLocal
    \/ N_OfferSend
    \/ N_IceCandidate
    \/ \E k \in OffersIn :
          \/ N_HandleSdpOffer(k)
          \/ N_AnswerSetRemote(k)
          \/ N_AnswerCreate(k)
          \/ N_AnswerReply(k)
          \/ N_AnswerSetLocal(k)
          \/ N_AnswerSend(k)

NegSpec == StmtInit /\ [][NegNext]_vars

MixerNext ==
    \E p \in MPeers :
        \/ M_PadAdded(p)
        \/ M_Unlinked(p)
        \/ M_RelayoutBegin(p)
        \/ M_RelayoutPad(p)
        \/ M_RelayoutEnd(p)

MixerSpec == StmtInit /\ [][MixerNext]_vars

LockNext ==
    \/ \E fn \in {"add_peer", "remove_peer", "handle_websocket_message"}, id \in PeerIds :
          T_Call(fn, id)
    \/ T_Lock
    \/ T_ContainsKey
    \/ T_Insert
    \/ T_Remove
    \/ T_Get
    \/ T_Drop
    \/ T_Engine
    \/ T_Return

LockSpec == StmtInit /\ [][LockNext]_vars
(***************************************************************************)
(* Claims about attaching and detaching a Peer's bin (GraphSpec).          *)
(***************************************************************************)
\* Data pushed into the tee for media m reaches the Peer's bin.
Delivers(p, m) ==
    /\ graph.srcPad[p][m] = "linked"
    /\ ~graph.srcBlock[p][m]
    /\ graph.teeBlock[m] = {}

LinksSrc(p, m) == graph.srcPad[p][m] # "linked" /\ graph'.srcPad[p][m] = "linked"

UnblocksSrc(p, m) ==
    /\ graph.srcBlock[p][m] /\ ~graph'.srcBlock[p][m]
    /\ graph'.srcPad[p][m] = graph.srcPad[p][m]

FreesSrc(p, m) ==
    /\ graph'.srcPad[p][m] # graph.srcPad[p][m]
    /\ graph'.srcPad[p][m] \in {"unlinked", "released"}

FreesMix(p, m) == graph.mixPad[p][m] = "linked" /\ graph'.mixPad[p][m] = "released"

\* C19 as stated: in the detach no unlink or release, of a tee output or of
\* a mixer input of the Peer, happens while the detach has no block in place.
C19_NothingFreedUnblocked ==
    [][ \A p \in GPeers : \A m \in Media :
          (FreesSrc(p, m) \/ FreesMix(p, m)) => p \in graph.teeBlock[m] ]_vars

\* C19: in the detach of a present Peer the sinks of both tees are blocked,
\* the Peer's tee outputs are unlinked and released while their tee is
\* blocked, the blocks are removed, and then the bin is removed and set to
\* Null; the Peer's mixer inputs are unlinked and released by the removal
\* of the bin, after the blocks are gone, and are never blocked.
C19_DetachOrder ==
    [][ \A p \in GPeers :
          /\ \A m \in Media :
                /\ FreesSrc(p, m) => p \in graph.teeBlock[m]
                /\ (graph'.srcPad[p][m] = "released" /\ graph.srcPad[p][m] # "released")
                      => graph.srcPad[p][m] = "unlinked"
                /\ (FreesSrc(p, "audio") /\ graph.srcPad[p]["audio"] = "linked")
                      => p \in graph.teeBlock["video"]
                /\ FreesMix(p, m) => (graph.bin[p] # "removed" /\ graph'.bin[p] = "removed")
          /\ (graph.bin[p] # "removed" /\ graph'.bin[p] = "removed")
                => /\ \A m \in Media : p \notin graph.teeBlock[m] /\ graph.srcPad[p][m] # "linked"
                   /\ graph.dpc[p] = "remove_bin"
          /\ (graph.bin[p] # "null" /\ graph'.bin[p] = "null") => graph.bin[p] = "removed" ]_vars

\* A Peer whose video stream was linked to the mixer has been detached.
C19_Witness ==
    \E p \in GPeers :
        /\ graph.dpc[p] = "done"
        /\ graph.bin[p] = "null"
        /\ graph.srcPad[p]["audio"] = "released"
        /\ graph.srcPad[p]["video"] = "released"
        /\ graph.mixPad[p]["video"] = "released"

\* A block installed for p is in place on media m.
BlockFor(p, m) == graph.srcBlock[p][m] \/ p \in graph.teeBlock[m]

\* q's branch of media m is linked and carries no block of q's own.
Flowing(q, m) == graph.srcPad[q][m] = "linked" /\ ~graph.srcBlock[q][m]

\* The delivery of media m to q is held up by a block installed for p: q's
\* pad is downstream of the tee's sink, and of no other Peer's src pad.
StalledBy(q, p, m) == Flowing(q, m) /\ p \in graph.teeBlock[m]

\* C20 as stated: in every state where a block for p is in place, delivery
\* to every other attached peer q is not stalled by it.
C20_BlockStallsOnlyOwnBranch ==
    \A p \in GPeers : \A q \in GPeers \ {p} : \A m \in Media :
        BlockFor(p, m) => ~StalledBy(q, p, m)

\* The positions of p's detach closure between its add_probe on the sink of
\* the tee of m and its remove_probe.
DetachBlockHeld(m) ==
    IF m = "audio"
    THEN {"video_block", "audio_unlink", "audio_release", "audio_teeunblock"}
    ELSE {"audio_unlink", "audio_release", "audio_teeunblock",
          "video_unlink", "video_release", "video_teeunblock"}

\* C20: a block installed while attaching p is on p's own tee outputs and
\* stalls only p's branch; a block installed while detaching p is on the
\* sink of the shared tee and stalls the delivery to every peer, for as long
\* as p's detach closure is between installing and removing it.
C20_BlockScope ==
    /\ [](\A p \in GPeers : \A m \in Media :
             /\ p \in graph.teeBlock[m] <=> graph.dpc[p] \in DetachBlockHeld(m)
             /\ graph.teeBlock[m] # {} => \A q \in GPeers : ~Delivers(q, m)
             /\ graph.srcBlock[p][m] => graph.srcPad[p][m] \in {"requested", "linked", "unlinked"})
    /\ [][ \A p \in GPeers : \A m \in Media :
             graph'.srcBlock[p][m] # graph.srcBlock[p][m]
                => (graph'.apc[p] # graph.apc[p] \/ graph'.dpc[p] # graph.dpc[p]) ]_vars

\* p's detach has the audio tee blocked while q's running bin is linked to it.
C20_Witness ==
    \E p \in GPeers : \E q \in GPeers \ {p} :
        /\ p \in graph.teeBlock["audio"]
        /\ Flowing(q, "audio")
        /\ graph.bin[q] = "playing"
        /\ graph.srcBlock[p]["audio"] = FALSE

(***************************************************************************)
(* Claims about the order of one Peer's negotiation messages (NegSpec).    *)
(***************************************************************************)
\* The n-th message on the channel is a candidate webrtcbin discovered
\* while its local description was the offer.
CandidateOfOffer(n) == neg.chan[n].kind = "ice" /\ neg.chan[n].cause = "offer"

\* C21: no candidate discovered as a consequence of the offer being the
\* local description lies on the outbound channel before the offer.
C21_OfferBeforeItsCandidates ==
    \A n \in 1..Len(neg.chan) :
        CandidateOfOffer(n) => \E j \in 1..(n - 1) : neg.chan[j].kind = "offer"

\* The step does op for inbound offer k.
Does(k, op) == op \in neg'.did[k] \ neg.did[k]

\* C22: for each inbound offer the order set-remote-description(offer),
\* create-answer, set-local-description(answer), send of Sdp{answer} holds:
\* each is done only when the one before it has been done.
C22_AnswerOrder ==
    [][ \A k \in OffersIn :
          /\ Does(k, "create_answer") => "set_remote" \in neg.did[k]
          /\ Does(k, "set_local") => "create_answer" \in neg.did[k]
          /\ Does(k, "send") => {"set_remote", "set_local"} \subseteq neg.did[k] ]_vars

\* Both inbound offers have been answered, and the Peer's own offer lies
\* between the two answers on the channel.
C22_Witness ==
    /\ \A k \in OffersIn : neg.ans[k] = "sent"
    /\ Len(neg.chan) >= 3
    /\ neg.chan[1].kind = "answer"
    /\ neg.chan[2].kind = "offer"

(***************************************************************************)
(* Claims about the peers mutex (LockSpec).                                *)
(***************************************************************************)
\* C23 as stated: the mutex is never held while a call into the engine is
\* in progress.
C23_NoEngineCallUnderLock == ~(tbl.lock /\ tbl.pc \in EngineCalls)

\* The engine calls add_peer makes between its contains_key and its insert:
\* they build the bin that is not yet in the pipeline.
BuildsBin == {"parse_bin", "set_props", "ghost_pads"}

\* C23: the mutex is held across an engine call only in add_peer, while
\* the new bin is built between the duplicate test and the insert; it is
\* never held while the bin is added to the pipeline, signal handlers are
\* connected, pads are requested, probed or linked, a closure is queued or
\* a message is passed to a Peer.
C23_LockAcrossBinBuildOnly ==
    (tbl.lock /\ tbl.pc \in EngineCalls) => (tbl.fn = "add_peer" /\ tbl.pc \in BuildsBin)

\* add_peer holds the mutex and is making the ghost pads of a second Peer's bin.
C23_Witness ==
    /\ tbl.lock
    /\ tbl.fn = "add_peer"
    /\ tbl.pc = "ghost_pads"
    /\ tbl.table # {}

(***************************************************************************)
(* Claims about the video layout under concurrent handlers (MixerSpec).    *)
(***************************************************************************)
\* The tiles relayout_videomixer sets, in pad order, when it runs alone on
\* left pads starting at (x, y).
RECURSIVE TilesFrom(_, _, _, _, _)
TilesFrom(left, x, y, w, h) ==
    IF left = 0 THEN <<>>
    ELSE <<[x |-> x, y |-> y, w |-> w, h |-> h]>>
         \o TilesFrom(left - 1,
                      IF RowFull(x + w) THEN 0 ELSE x + w,
                      IF RowFull(x + w) THEN y + h ELSE y, w, h)

LayoutFor(npads) ==
    TilesFrom(npads, 0, 0, VIDEO_WIDTH \div GridFor(npads)[1], VIDEO_HEIGHT \div GridFor(npads)[2])

\* No pad-added or unlinked handler is running.
MixQuiet == \A p \in MPeers : mix.th[p].pc \in {"none", "linked", "released"}

\* The properties on the mixer's pads are those for the pads it has.
LayoutApplied ==
    \A k \in 1..(Len(mix.pads) - 1) :
        mix.tile[mix.pads[k + 1]] = LayoutFor(Len(mix.pads) - 1)[k]

\* C26: whenever no handler is running, the applied layout is the one for
\* the current number of video mixer pads besides the background pad.
C26_LayoutFollowsPadCount == MixQuiet => LayoutApplied
(***************************************************************************)
(* The pipeline under the scheduling the program gives: add_peer runs to   *)
(* its return on the loop's thread, and a closure handed to call_async is  *)
(* run to its end by the engine's thread pool.                             *)
(***************************************************************************)
GraphFairness ==
    \A p \in GPeers :
        /\ WF_vars(G_AddPeer(p))
        /\ WF_vars(G_Attach(p))
        /\ WF_vars(G_Detach(p))

GraphFairSpec == GraphSpec /\ GraphFairness

(***************************************************************************)
(* Claims about probes and pads that are left behind (GraphFairSpec,       *)
(* GraphSpec).                                                             *)
(***************************************************************************)
\* Some blocking probe is installed: on a tee's src pad by add_peer or on a
\* tee's sink pad by a detach closure.
SomeProbe ==
    \/ \E p \in GPeers, m \in Media : graph.srcBlock[p][m]
    \/ \E m \in Media : graph.teeBlock[m] # {}

\* C28: every blocking probe that add_peer or a detach closure installs is
\* eventually removed: from some point on no tee src pad and no tee sink
\* pad is blocked.
C28_ProbesEventuallyRemoved == <>[](~SomeProbe)

\* The Peer is in the table: from add_peer's insert to remove_peer.
GInTable(p) == graph.apc[p] # "absent" /\ graph.dpc[p] = "none"

\* No add_peer, attach closure or detach closure is under way.
GraphQuiet ==
    /\ graph.loop = 0
    /\ \A p \in GPeers : /\ graph.apc[p] \in {"absent", "attached", "link_failed"}
                         /\ graph.dpc[p] \in {"none", "done"}

\* The tee's src pad requested for the Peer has not been released.
HasOutput(p, m) == graph.srcPad[p][m] \in {"requested", "linked", "unlinked"}

\* C29: when a Peer's detach closure has run, every tee src pad and every
\* mixer sink pad requested for it has been released; and when nothing is
\* under way, each tee has as many requested src pads as the table has
\* Peers and every mixer pad that is linked belongs to a Peer of the table.
C29_NoSlotLeak ==
    /\ \A p \in GPeers :
          graph.dpc[p] = "done"
            => \A m \in Media : ~HasOutput(p, m) /\ graph.mixPad[p][m] # "linked"
    /\ GraphQuiet
          => \A m \in Media :
                /\ Cardinality({p \in GPeers : HasOutput(p, m)})
                     = Cardinality({p \in GPeers : GInTable(p)})
                /\ \A p \in GPeers : graph.mixPad[p][m] = "linked" => GInTable(p)
(***************************************************************************)
(* Claims about relayout_videomixer (LayoutSpec).                          *)
(***************************************************************************)
Canvas == [w |-> VIDEO_WIDTH, h |-> VIDEO_HEIGHT]

InsideCanvas(t) ==
    /\ 0 <= t.x /\ t.x + t.w <= Canvas.w
    /\ 0 <= t.y /\ t.y + t.h <= Canvas.h

Overlap(s, t) ==
    /\ s.x < t.x + t.w /\ t.x < s.x + s.w
    /\ s.y < t.y + t.h /\ t.y < s.y + s.h

\* Tile k (counted from 0) sits in column k mod cols of row k div cols.
RowMajor ==
    \A k \in 1..Len(lay.tiles) :
        /\ lay.tiles[k].x = ((k - 1) % lay.cols) * lay.w
        /\ lay.tiles[k].y = ((k - 1) \div lay.cols) * lay.h

NoOverlap ==
    \A j, k \in 1..Len(lay.tiles) : j # k => ~Overlap(lay.tiles[j], lay.tiles[k])

ClaimedGrid(n) == IF n <= 1 THEN 1 ELSE IF n <= 4 THEN 2 ELSE 4

\* C8: for every count n of video mixer pads besides the background pad the
\* grid has columns = rows = 1 when n <= 1, 2 when 2 <= n <= 4 and 4 when
\* n >= 5 (n > 16 included), and every tile is canvas width / columns wide
\* and canvas height / rows high.
C8_GridAndTileSize ==
    lay.pc \in {"loop", "done"} /\ lay.sinkPads > 0 =>
        LET g == ClaimedGrid(lay.sinkPads - 1)
        IN /\ lay.cols = g
           /\ lay.rows = g
           /\ \A k \in 1..Len(lay.tiles) :
                /\ lay.tiles[k].w = Canvas.w \div g
                /\ lay.tiles[k].h = Canvas.h \div g

\* The layout of 17 pads is complete: the capped 4x4 grid.
C8_Witness ==
    /\ lay.pc = "done"
    /\ lay.npads = 17
    /\ Len(lay.tiles) = 17
    /\ lay.cols = 4

\* C9 as stated: for every count n (n > 16 included) the tiles are placed
\* row-major, do not overlap pairwise and each lies inside the canvas.
C9_AllTilesInsideCanvas ==
    lay.pc = "done" =>
        /\ RowMajor
        /\ NoOverlap
        /\ \A k \in 1..Len(lay.tiles) : InsideCanvas(lay.tiles[k])

\* C9 amended: for every count n the tiles are placed row-major and do not
\* overlap pairwise; each tile lies inside the canvas when n <= 16, and for
\* n > 16 exactly the first 16 tiles do: every later tile starts at or below
\* the canvas's lower edge.
C9_TilesInsideUpTo16 ==
    lay.pc = "done" =>
        /\ RowMajor
        /\ NoOverlap
        /\ \A k \in 1..Len(lay.tiles) :
              IF k <= 16 THEN InsideCanvas(lay.tiles[k])
              ELSE lay.tiles[k].y >= Canvas.h

\* A full 4x4 grid has been laid out.
C9_Witness ==
    /\ lay.pc = "done"
    /\ lay.npads = 16
    /\ Len(lay.tiles) = 16
    /\ lay.tiles[16].x + lay.tiles[16].w = Canvas.w
    /\ lay.tiles[16].y + lay.tiles[16].h = Canvas.h

(***************************************************************************)
(* Claim about the JsonMsg encoding (CodecSpec).                           *)
(***************************************************************************)
\* C10: decoding the JSON produced by encoding an Ice{candidate, mlineIndex}
\* or an Sdp{kind, body} yields a message of the same variant with the same
\* field values.
C10_RoundTrip ==
    codec.pc = "decoded" =>
        /\ codec.out.variant = codec.msg.variant
        /\ codec.out = codec.msg

\* An Ice message with a two-digit line index has made the round trip.
C10_Witness ==
    /\ codec.pc = "decoded"
    /\ codec.msg.variant = "Ice"
    /\ codec.msg.sdp_mline_index = 10
    /\ codec.msg.candidate # ""
    /\ codec.out.variant = "Ice"

====
